---------------------------- MODULE Spec2Model ----------------------------
(***************************************************************************)
(* Model of the LibreChat invoice extraction client                        *)
(* (librechat_invoice_extractor.py) and of its batch driver                *)
(* (examples/batch_processing.py).                                         *)
(*                                                                         *)
(* Texts are sequences of tokens instead of sequences of characters:       *)
(*   "F"  the three-backtick marker ```                                    *)
(*   "N"  the newline character                                            *)
(*   "S"  a space                                                          *)
(*   "T"  a run of letters that is no JSON value (a language tag, prose)   *)
(*   "O"  the text of a non-empty JSON object, e.g. {"vendor": "ACME"}     *)
(*   "E"  the text of the empty JSON object {}                             *)
(*   "L"  the text of a non-empty JSON array, e.g. [1]                     *)
(*   "Z"  the text of the JSON value null                                  *)
(* Three specifications share the definitions:                             *)
(*   Spec        the two drivers (single-file CLI and batch)               *)
(*   SpecStream  the stream loop of extract_invoice over a whole stream    *)
(*   SpecFence   the fence stripping of extract_invoice over all texts     *)
(***************************************************************************)
EXTENDS Integers, Sequences, FiniteSets

VARIABLES
    mode,               \* "cli" | "batch" | "stream" | "fence": what runs
    pc,                 \* position of the running driver / function
    exitCode,           \* return value of main(); -1 while none
    loginStatus,        \* "none" | "ok" | "failed"
    vendorFile,         \* what the vendors path named: "unset", "notgiven",
                        \* "missing", "ok", "malformed"
    vendors,            \* "unset" | "file" | "default": the loaded mapping
    pdfs,               \* number of PDFs to process (len(pdfs))
    outDir,             \* "unset" | "ok" | "error": output_dir.mkdir
    cur,                \* index of the PDF being processed (enumerate)
    conversation_id,    \* client.conversation_id ("None" or an id)
    parent_message_id,  \* client.parent_message_id ("None" or an id)
    full_response,      \* extract_invoice's full_response
    nLines,             \* lines of the current stream consumed so far
    uploads,            \* upload requests sent: <<[file, status]>>
    asks,               \* ask requests sent: <<payload and response status>>
    parsed,             \* per PDF: what json.loads made of the final text
    outputs,            \* per PDF: content of its .json file, or NoFile
    results,            \* the batch driver's results list
    summary,            \* content of batch_summary.json, or NoSummary
    summaryWrites,      \* number of times batch_summary.json was written
    phase,              \* per PDF: pending, uploading, extracting, parsing,
                        \* persisted, failed
    stream,             \* SpecStream: the lines the server sends
    parserIn            \* SpecFence: the text handed to json.loads

vars == <<mode, pc, exitCode, loginStatus, vendorFile, vendors, pdfs, outDir,
          cur, conversation_id, parent_message_id, full_response, nLines,
          uploads, asks, parsed, outputs, results, summary, summaryWrites,
          phase, stream, parserIn>>

(***************************************************************************)
(* Bounds                                                                  *)
(***************************************************************************)
\* PDFs in the folder of a batch run
MaxPdfs == 2
\* lines read from one streamed response by a driver
MaxLines == 2
\* lines of a whole stream in SpecStream
MaxStreamLen == 3
\* tokens of a final text in SpecFence
MaxTextLen == 6

(***************************************************************************)
(* Texts                                                                   *)
(***************************************************************************)
Whitespace == {"S", "N"}
ValueTokens == {"O", "E", "L", "Z"}

\* all sequences over A of length at most n
RECURSIVE SeqsUpTo(_, _)
SeqsUpTo(A, n) ==
    IF n = 0 THEN {<<>>}
    ELSE LET shorter == SeqsUpTo(A, n - 1)
         IN  shorter \cup {Append(s, a) : s \in {x \in shorter : Len(x) = n - 1}, a \in A}

\* str.lstrip() / str.rstrip() / str.strip()
RECURSIVE LStrip(_)
LStrip(t) ==
    IF t # <<>> /\ Head(t) \in Whitespace THEN LStrip(Tail(t)) ELSE t

RECURSIVE RStrip(_)
RStrip(t) ==
    IF t # <<>> /\ t[Len(t)] \in Whitespace
    THEN RStrip(SubSeq(t, 1, Len(t) - 1))
    ELSE t

Strip(t) == RStrip(LStrip(t))

\* json_text.startswith('```')
StartsWithFence(t) == Len(t) >= 1 /\ t[1] = "F"

\* json_text.split('\n'): the list of lines, at least one
RECURSIVE SplitLines(_)
SplitLines(t) ==
    IF \A k \in 1..Len(t) : t[k] # "N" THEN <<t>>
    ELSE LET k == CHOOSE i \in 1..Len(t) :
                      t[i] = "N" /\ \A j \in 1..(i - 1) : t[j] # "N"
         IN  <<SubSeq(t, 1, k - 1)>> \o SplitLines(SubSeq(t, k + 1, Len(t)))

\* a plausible slip: only the first line is dropped (lines[1:])
InnerLinesKeepLast(lines) == SubSeq(lines, 2, Len(lines))

\* lines[1:-1]
InnerLines(lines) == SubSeq(lines, 2, Len(lines) - 1)

\* '\n'.join(lines)
RECURSIVE JoinLines(_)
JoinLines(lines) ==
    IF lines = <<>> THEN <<>>
    ELSE IF Len(lines) = 1 THEN lines[1]
    ELSE lines[1] \o <<"N">> \o JoinLines(Tail(lines))

\* the text extract_invoice hands to json.loads
FenceStrip(text) ==
    LET json_text == Strip(text)
    IN  IF StartsWithFence(json_text)
        THEN JoinLines(InnerLines(SplitLines(json_text)))
        ELSE json_text

\* json.loads: the value, or "JSONDecodeError". Whitespace around the one
\* value is skipped; anything else is no JSON document.
JsonLoads(t) ==
    LET core == Strip(t)
    IN  IF Len(core) = 1 /\ core[1] \in ValueTokens
        THEN core[1]
        ELSE "JSONDecodeError"

\* Python truth of a parsed value (`if not invoice_data`)
Truthy(v) == v \in {"O", "L"}

\* the parsed value has a .get method (is a dict)
IsDict(v) == v \in {"O", "E"}

(***************************************************************************)
(* The streamed response                                                   *)
(***************************************************************************)
\* a received line that is no JSON object event
PlainLine(k) ==
    [kind |-> k, hasText |-> FALSE, text |-> <<>>, hasCid |-> FALSE, hasMid |-> FALSE]

\* "empty": b''                 "noprefix": no 'data: ' prefix
\* "done": 'data: [DONE]'        "malformed": 'data: ' + no JSON
\* "scalar": 'data: 5' (JSON, but `'text' in data` raises TypeError)
\* "list": 'data: []' (JSON, holds none of the fields)
PlainLines ==
    {PlainLine(k) : k \in {"empty", "noprefix", "done", "malformed", "scalar", "list"}}

\* 'data: {...}' events carrying any of text, conversationId, messageId
EventLines(texts) ==
    {l \in [kind : {"event"}, hasText : BOOLEAN, text : texts \cup {<<>>},
            hasCid : BOOLEAN, hasMid : BOOLEAN] :
        ~l.hasText => l.text = <<>>}

\* the final answers a driver run may be sent
AnswerTexts ==
    { <<>>, <<"O">>, <<"E">>, <<"L">>, <<"Z">>, <<"T">>,
      <<"S", "O", "N">>,
      <<"F", "N", "O", "N", "F">>,
      <<"F", "T", "N", "O", "N", "F">>,
      <<"F", "N", "E", "N", "F">>,
      <<"F", "O", "F">>,
      <<"F", "N", "O">> }

DriverLines == PlainLines \cup EventLines(AnswerTexts)

\* the lines of SpecStream: ids come together or not at all
StreamLines ==
    PlainLines \cup {l \in EventLines({<<"O">>, <<"T">>}) : l.hasCid = l.hasMid}

\* the ids the server hands out
ServerConversationId == "c1"
ServerMessageId == "m1"

\* a plausible slip: the text of an event is appended, not assigned
StreamStepAppend(text, cid, mid, line) ==
    IF line.kind \in {"empty", "noprefix", "malformed", "list"}
    THEN [next |-> "continue", text |-> text, cid |-> cid, mid |-> mid]
    ELSE IF line.kind = "done"
    THEN [next |-> "break", text |-> text, cid |-> cid, mid |-> mid]
    ELSE IF line.kind = "scalar"
    THEN [next |-> "raise", text |-> text, cid |-> cid, mid |-> mid]
    ELSE [next |-> "continue",
          text |-> IF line.hasText THEN text \o line.text ELSE text,
          cid  |-> IF line.hasCid THEN ServerConversationId ELSE cid,
          mid  |-> IF line.hasMid THEN ServerMessageId ELSE mid]

\* one iteration of `for line in response.iter_lines()`
StreamStep(text, cid, mid, line) ==
    IF line.kind \in {"empty", "noprefix", "malformed", "list"}
    THEN [next |-> "continue", text |-> text, cid |-> cid, mid |-> mid]
    ELSE IF line.kind = "done"
    THEN [next |-> "break", text |-> text, cid |-> cid, mid |-> mid]
    ELSE IF line.kind = "scalar"
    THEN [next |-> "raise", text |-> text, cid |-> cid, mid |-> mid]
    ELSE [next |-> "continue",
          text |-> IF line.hasText THEN line.text ELSE text,
          cid  |-> IF line.hasCid THEN ServerConversationId ELSE cid,
          mid  |-> IF line.hasMid THEN ServerMessageId ELSE mid]

(***************************************************************************)
(* The request payload                                                     *)
(***************************************************************************)
NilUuid == "00000000-0000-0000-0000-000000000000"

\* conversation_id or "new"
PayloadConversationId(conversation_id_arg) ==
    IF conversation_id_arg = "None" THEN "new" ELSE conversation_id_arg

\* self.parent_message_id or "00000000-0000-0000-0000-000000000000"
PayloadParentMessageId(pm) ==
    IF pm = "None" THEN NilUuid ELSE pm

(***************************************************************************)
(* The drivers: main() of librechat_invoice_extractor.py (mode "cli") and  *)
(* process_invoice_folder of batch_processing.py (mode "batch")            *)
(***************************************************************************)
Files == 1..MaxPdfs

runVars == <<mode, stream>>
setupVars == <<loginStatus, vendorFile, vendors, pdfs, outDir>>
clientVars == <<conversation_id, parent_message_id>>
streamVars == <<full_response, nLines>>
fileVars == <<parsed, outputs, parserIn>>
summaryVars == <<summary, summaryWrites>>

InitCommon ==
    /\ pc = "start"
    /\ exitCode = -1
    /\ loginStatus = "none"
    /\ vendorFile = "unset"
    /\ vendors = "unset"
    /\ pdfs = 0
    /\ outDir = "unset"
    /\ cur = 0
    /\ conversation_id = "None"
    /\ parent_message_id = "None"
    /\ full_response = <<>>
    /\ nLines = 0
    /\ uploads = <<>>
    /\ asks = <<>>
    /\ parsed = [i \in Files |-> "unparsed"]
    /\ outputs = [i \in Files |-> "NoFile"]
    /\ results = <<>>
    /\ summary = <<>>
    /\ summaryWrites = 0
    /\ phase = [i \in Files |-> "pending"]
    /\ stream = <<>>
    /\ parserIn = <<>>

Init ==
    /\ mode \in {"cli", "batch"}
    /\ InitCommon

\* the current PDF ends in `return None` of upload_file / extract_invoice,
\* or in a falsy invoice_data: main returns 1, the batch loop continues
\* without an entry in results
SentinelFailure ==
    /\ phase' = [phase EXCEPT ![cur] = "failed"]
    /\ results' = results
    /\ IF mode = "cli"
       THEN pc' = "done" /\ exitCode' = 1
       ELSE pc' = "loop" /\ exitCode' = exitCode

\* an exception leaves upload_file / extract_invoice: main has no handler,
\* the batch loop's `except Exception` records an 'error' entry
ExceptionRaised ==
    /\ phase' = [phase EXCEPT ![cur] = "failed"]
    /\ exitCode' = exitCode
    /\ IF mode = "cli"
       THEN pc' = "crashed" /\ results' = results
       ELSE /\ pc' = "loop"
            /\ results' = Append(results,
                   [file |-> cur, status |-> "error", data |-> "exception"])

\* a plausible slip: the result of login is not checked
LoginGateOpen(ok) == TRUE

\* `if not client.login(...)`: the run goes on only if login returned True
LoginGate(ok) == ok

\* client.login and the driver's check of it
Login ==
    /\ pc = "start"
    /\ mode \in {"cli", "batch"}
    /\ \E ok \in BOOLEAN :
        /\ loginStatus' = IF ok THEN "ok" ELSE "failed"
        /\ IF LoginGate(ok)
           THEN pc' = "load" /\ exitCode' = exitCode
           ELSE pc' = "done" /\ exitCode' = IF mode = "cli" THEN 1 ELSE 0
    /\ UNCHANGED <<runVars, vendorFile, vendors, pdfs, outDir, cur, clientVars,
                   streamVars, uploads, asks, fileVars, results, summaryVars,
                   phase>>

\* load_vendor_mappings(args.vendors) in main: a path that is not given or
\* does not exist yields the defaults; json.load of an unreadable file raises
LoadVendorsCli ==
    /\ pc = "load"
    /\ mode = "cli"
    /\ \E f \in {"notgiven", "missing", "ok", "malformed"} :
        /\ vendorFile' = f
        /\ IF f = "malformed"
           THEN /\ pc' = "crashed"
                /\ UNCHANGED <<vendors, pdfs, cur, phase>>
           ELSE /\ vendors' = IF f = "ok" THEN "file" ELSE "default"
                /\ pdfs' = 1
                /\ cur' = 1
                /\ phase' = [phase EXCEPT ![1] = "uploading"]
                /\ pc' = "upload"
    /\ UNCHANGED <<runVars, exitCode, loginStatus, outDir, clientVars,
                   streamVars, uploads, asks, fileVars, results, summaryVars>>

\* open(vendors_file) / json.load in process_invoice_folder: no existence
\* check and no handler
LoadVendorsBatch ==
    /\ pc = "load"
    /\ mode = "batch"
    /\ \E f \in {"missing", "ok", "malformed"} :
        /\ vendorFile' = f
        /\ IF f = "ok"
           THEN vendors' = "file" /\ pc' = "find"
           ELSE vendors' = vendors /\ pc' = "crashed"
    /\ UNCHANGED <<runVars, exitCode, loginStatus, pdfs, outDir, cur,
                   clientVars, streamVars, uploads, asks, fileVars, results,
                   summaryVars, phase>>

\* folder.glob("*.pdf"), the early return on no PDFs, output_dir.mkdir
FindPdfs ==
    /\ pc = "find"
    /\ \E n \in 0..MaxPdfs, mk \in {"ok", "error"} :
        /\ pdfs' = n
        /\ IF n = 0
           THEN pc' = "done" /\ exitCode' = 0 /\ outDir' = outDir
           ELSE /\ outDir' = mk
                /\ exitCode' = exitCode
                /\ pc' = IF mk = "ok" THEN "loop" ELSE "crashed"
    /\ UNCHANGED <<runVars, loginStatus, vendorFile, vendors, cur, clientVars,
                   streamVars, uploads, asks, fileVars, results, summaryVars,
                   phase>>

\* a plausible slip: the summary is written as soon as one PDF is through
LoopDoneEarly == cur >= 1

\* the for loop over pdfs is exhausted
LoopDone == cur = pdfs

\* the for loop takes the next PDF
NextFile ==
    /\ pc = "loop"
    /\ cur < pdfs
    /\ cur' = cur + 1
    /\ phase' = [phase EXCEPT ![cur + 1] = "uploading"]
    /\ pc' = "upload"
    /\ UNCHANGED <<runVars, exitCode, setupVars, clientVars, streamVars,
                   uploads, asks, fileVars, results, summaryVars>>

\* a plausible slip: a failed upload does not end the PDF's processing
AfterUploadAlwaysAsk(outcome) == "ask"

\* `if not file_data`: where the driver goes after upload_file
AfterUpload(outcome) ==
    IF outcome = "ok" THEN "ask"
    ELSE IF outcome = "raise" THEN "raise"
    ELSE "none"

\* the path is missing only for main(): the batch driver uploads what glob found
UploadOutcomes ==
    IF mode = "cli" THEN {"ok", "non200", "raise", "missing"}
    ELSE {"ok", "non200", "raise"}

\* client.upload_file(pdf) and the driver's check of its result
Upload ==
    /\ pc = "upload"
    /\ \E outcome \in UploadOutcomes :
        /\ uploads' = IF outcome = "missing" THEN uploads
                      ELSE Append(uploads, [file |-> cur, status |-> outcome])
        /\ CASE AfterUpload(outcome) = "ask" ->
                  /\ pc' = "ask"
                  /\ phase' = [phase EXCEPT ![cur] = "extracting"]
                  /\ UNCHANGED <<exitCode, results>>
             [] AfterUpload(outcome) = "raise" -> ExceptionRaised
             [] OTHER -> SentinelFailure
    /\ UNCHANGED <<runVars, setupVars, cur, clientVars, streamVars, asks,
                   fileVars, summaryVars>>

\* extract_invoice up to the status check: the payload is built and posted
Ask ==
    /\ pc = "ask"
    /\ \E outcome \in {"200", "non200", "raise"} :
        /\ asks' = Append(asks,
               [file |-> cur,
                conversationId |-> PayloadConversationId("None"),
                parentMessageId |-> PayloadParentMessageId(parent_message_id),
                status |-> outcome])
        /\ CASE outcome = "200" ->
               /\ pc' = "stream"
               /\ full_response' = <<>>
               /\ nLines' = 0
               /\ UNCHANGED <<exitCode, results, phase>>
          [] outcome = "non200" ->
               SentinelFailure /\ UNCHANGED streamVars
          [] OTHER ->
               ExceptionRaised /\ UNCHANGED streamVars
    /\ UNCHANGED <<runVars, setupVars, cur, clientVars, uploads, fileVars,
                   summaryVars>>

\* the lines the next iteration may read
NextLines ==
    IF mode = "stream"
    THEN (IF nLines < Len(stream) THEN {stream[nLines + 1]} ELSE {})
    ELSE (IF nLines < MaxLines THEN DriverLines ELSE {})

\* the stream loop is left: on [DONE] or when the lines are exhausted
StreamLeft ==
    /\ pc' = "parse"
    /\ exitCode' = exitCode
    /\ results' = results
    /\ phase' = IF mode = "stream" THEN phase
                ELSE [phase EXCEPT ![cur] = "parsing"]

\* one line of the streamed response is read; an exception ends
\* extract_invoice and with it its locals
StreamLine ==
    /\ pc = "stream"
    /\ \E line \in NextLines :
        LET r == StreamStep(full_response, conversation_id, parent_message_id, line)
        IN  /\ conversation_id' = r.cid
            /\ parent_message_id' = r.mid
            /\ CASE r.next = "break" ->
                      /\ StreamLeft
                      /\ full_response' = r.text
                      /\ nLines' = nLines + 1
                 [] r.next = "raise" ->
                      IF mode = "stream"
                      THEN /\ pc' = "raised"
                           /\ full_response' = r.text
                           /\ nLines' = nLines + 1
                           /\ UNCHANGED <<exitCode, results, phase>>
                      ELSE /\ ExceptionRaised
                           /\ full_response' = <<>>
                           /\ nLines' = 0
                 [] OTHER ->
                      /\ pc' = "stream"
                      /\ full_response' = r.text
                      /\ nLines' = nLines + 1
                      /\ UNCHANGED <<exitCode, results, phase>>
    /\ UNCHANGED <<runVars, setupVars, cur, uploads, asks, fileVars,
                   summaryVars>>

\* response.iter_lines() is exhausted
StreamEnd ==
    /\ pc = "stream"
    /\ mode = "stream" => nLines = Len(stream)
    /\ StreamLeft
    /\ UNCHANGED <<runVars, setupVars, cur, clientVars, streamVars, uploads,
                   asks, fileVars, summaryVars>>

\* the end of extract_invoice: fence stripping and json.loads, then the
\* return to the driver (the locals are gone) and its `if not invoice_data`.
\* SpecFence stops at the call of json.loads, with the text handed to it.
Parse ==
    /\ pc = "parse"
    /\ LET json_text == FenceStrip(full_response)
           invoice_data == JsonLoads(json_text)
       IN  IF mode = "fence"
           THEN /\ parserIn' = json_text
                /\ pc' = "parsed"
                /\ UNCHANGED <<streamVars, parsed, exitCode, results, phase>>
           ELSE /\ parsed' = [parsed EXCEPT ![cur] = invoice_data]
                /\ parserIn' = <<>>
                /\ full_response' = <<>>
                /\ nLines' = 0
                /\ IF Truthy(invoice_data)
                   THEN pc' = "save" /\ UNCHANGED <<exitCode, results, phase>>
                   ELSE SentinelFailure
    /\ UNCHANGED <<runVars, setupVars, cur, clientVars, uploads, asks, outputs,
                   summaryVars>>

\* main() after extraction: the .get prints, then the output file, return 0
SaveCli ==
    /\ pc = "save"
    /\ mode = "cli"
    /\ IF IsDict(parsed[cur])
       THEN /\ outputs' = [outputs EXCEPT ![cur] = parsed[cur]]
            /\ phase' = [phase EXCEPT ![cur] = "persisted"]
            /\ pc' = "done"
            /\ exitCode' = 0
       ELSE /\ pc' = "crashed"
            /\ phase' = [phase EXCEPT ![cur] = "failed"]
            /\ UNCHANGED <<outputs, exitCode>>
    /\ UNCHANGED <<runVars, setupVars, cur, clientVars, streamVars, uploads,
                   asks, parsed, parserIn, results, summaryVars>>

\* the batch loop after extraction: the output file, then the .get prints,
\* then the 'success' entry; an AttributeError of .get is caught and recorded
SaveBatch ==
    /\ pc = "save"
    /\ mode = "batch"
    /\ outputs' = [outputs EXCEPT ![cur] = parsed[cur]]
    /\ phase' = [phase EXCEPT ![cur] = "persisted"]
    /\ results' = Append(results,
           IF IsDict(parsed[cur])
           THEN [file |-> cur, status |-> "success", data |-> parsed[cur]]
           ELSE [file |-> cur, status |-> "error", data |-> "exception"])
    /\ pc' = "loop"
    /\ UNCHANGED <<runVars, exitCode, setupVars, cur, clientVars, streamVars,
                   uploads, asks, parsed, parserIn, summaryVars>>

\* after the loop: the counts and batch_summary.json
WriteSummary ==
    /\ pc = "loop"
    /\ LoopDone
    /\ summary' = results
    /\ summaryWrites' = summaryWrites + 1
    /\ pc' = "done"
    /\ exitCode' = 0
    /\ UNCHANGED <<runVars, setupVars, cur, clientVars, streamVars, uploads,
                   asks, fileVars, results, phase>>

Next ==
    \/ Login
    \/ LoadVendorsCli
    \/ LoadVendorsBatch
    \/ FindPdfs
    \/ NextFile
    \/ Upload
    \/ Ask
    \/ StreamLine
    \/ StreamEnd
    \/ Parse
    \/ SaveCli
    \/ SaveBatch
    \/ WriteSummary

Spec == Init /\ [][Next]_vars

(***************************************************************************)
(* SpecStream: the stream loop over every stream of at most MaxStreamLen   *)
(* lines, from the state extract_invoice has after a 200 response          *)
(***************************************************************************)
InitStream ==
    /\ mode = "stream"
    /\ pc = "stream"
    /\ exitCode = -1
    /\ loginStatus = "ok"
    /\ vendorFile = "ok"
    /\ vendors = "file"
    /\ pdfs = 1
    /\ outDir = "unset"
    /\ cur = 1
    /\ conversation_id = "None"
    /\ parent_message_id = "None"
    /\ full_response = <<>>
    /\ nLines = 0
    /\ uploads = <<>>
    /\ asks = <<>>
    /\ parsed = [i \in Files |-> "unparsed"]
    /\ outputs = [i \in Files |-> "NoFile"]
    /\ results = <<>>
    /\ summary = <<>>
    /\ summaryWrites = 0
    /\ phase = [i \in Files |-> "pending"]
    /\ stream \in SeqsUpTo(StreamLines, MaxStreamLen)
    /\ parserIn = <<>>

NextStream ==
    \/ StreamLine
    \/ StreamEnd

SpecStream == InitStream /\ [][NextStream]_vars

(***************************************************************************)
(* SpecFence: the end of extract_invoice over every final text of at most  *)
(* MaxTextLen tokens                                                       *)
(***************************************************************************)
FenceTokens == {"F", "N", "S", "T", "O"}

InitFence ==
    /\ mode = "fence"
    /\ pc = "parse"
    /\ exitCode = -1
    /\ loginStatus = "ok"
    /\ vendorFile = "ok"
    /\ vendors = "file"
    /\ pdfs = 1
    /\ outDir = "unset"
    /\ cur = 1
    /\ conversation_id = "None"
    /\ parent_message_id = "None"
    /\ full_response \in SeqsUpTo(FenceTokens, MaxTextLen)
    /\ nLines = 0
    /\ uploads = <<>>
    /\ asks = <<>>
    /\ parsed = [i \in Files |-> "unparsed"]
    /\ outputs = [i \in Files |-> "NoFile"]
    /\ results = <<>>
    /\ summary = <<>>
    /\ summaryWrites = 0
    /\ phase = [i \in Files |-> "pending"]
    /\ stream = <<>>
    /\ parserIn = <<>>

NextFence == Parse

SpecFence == InitFence /\ [][NextFence]_vars

(***************************************************************************)
(* Vocabulary of the properties                                            *)
(***************************************************************************)
Ended == pc \in {"done", "crashed"}
Terminal(p) == p \in {"persisted", "failed"}

Rank(p) ==
    CASE p = "pending" -> 0
      [] p = "uploading" -> 1
      [] p = "extracting" -> 2
      [] p = "parsing" -> 3
      [] OTHER -> 4

UploadsOf(log, i) == {k \in 1..Len(log) : log[k].file = i}
AsksOf(log, i) == {k \in 1..Len(log) : log[k].file = i}
EntriesOf(list, i) == {k \in 1..Len(list) : list[k].file = i}
UploadOk(i) == \E k \in 1..Len(uploads) : uploads[k].file = i /\ uploads[k].status = "ok"
AskStatus(i, st) == \E k \in 1..Len(asks) : asks[k].file = i /\ asks[k].status = st

Min(S) == CHOOSE x \in S : \A y \in S : x <= y
Max(S) == CHOOSE x \in S : \A y \in S : x >= y

(***************************************************************************)
(* C1: the list written to batch_summary.json holds exactly one entry for  *)
(* every PDF of the folder, 'success' if the PDF's output was persisted    *)
(* and 'error' otherwise.                                                  *)
(***************************************************************************)
C1_OneSummaryEntryPerPdf ==
    (mode = "batch" /\ summaryWrites >= 1) =>
        \A i \in 1..pdfs :
            /\ Cardinality(EntriesOf(summary, i)) = 1
            /\ \A k \in EntriesOf(summary, i) :
                   (summary[k].status = "success") <=> (outputs[i] # "NoFile")

(***************************************************************************)
(* C2: when the stream loop ends, the retained text is the text of the     *)
(* last event that carries a text field and comes before the first [DONE]  *)
(* line; the empty string if there is none.                                *)
(***************************************************************************)
LastTextBeforeDone(s) ==
    LET dones == {i \in 1..Len(s) : s[i].kind = "done"}
        limit == IF dones = {} THEN Len(s) + 1 ELSE Min(dones)
        texts == {i \in 1..(limit - 1) : s[i].kind = "event" /\ s[i].hasText}
    IN  IF texts = {} THEN <<>> ELSE s[Max(texts)].text

C3_CliExitCodes ==
    (mode = "cli" /\ Ended) =>
        /\ loginStatus = "failed" => (pc = "done" /\ exitCode = 1)
        /\ (loginStatus = "ok" /\ vendors # "unset" /\ ~UploadOk(1)
               /\ \A k \in 1..Len(uploads) : uploads[k].status # "raise")
             => (pc = "done" /\ exitCode = 1)
        /\ (AskStatus(1, "non200") \/ parsed[1] = "JSONDecodeError")
             => (pc = "done" /\ exitCode = 1)
        /\ (loginStatus = "ok" /\ UploadOk(1) /\ parsed[1] \in ValueTokens)
             => (pc = "done" /\ exitCode = 0 /\ outputs[1] = parsed[1])

(***************************************************************************)
(* C4: a missing vendor file or PDF path never ends a driver in an         *)
(* uncaught exception: upload_file on a missing path sends no request and  *)
(* the run ends with the failure outcome, and a driver given a missing     *)
(* vendor file ends with a failure outcome instead of raising.             *)
(***************************************************************************)
C4_MissingPathsNeverCrash ==
    /\ vendorFile = "missing" => pc # "crashed"
    /\ (mode = "cli" /\ vendorFile = "missing" /\ Ended) => exitCode = 1
    /\ (mode = "cli" /\ Ended /\ vendors # "unset" /\ uploads = <<>>)
         => (pc = "done" /\ exitCode = 1 /\ asks = <<>>)

(***************************************************************************)
(* C5: once a PDF is through, a final text that parsed as JSON has been    *)
(* written verbatim to the PDF's output file, whatever the JSON value; a   *)
(* final text that did not parse left no output file and, in batch mode,   *)
(* the PDF is counted as failed.                                           *)
(***************************************************************************)
C5_ParsedValueWrittenVerbatim ==
    \A i \in 1..pdfs :
        (mode \in {"cli", "batch"} /\ (Terminal(phase[i]) \/ Ended)) =>
            /\ parsed[i] \in ValueTokens => outputs[i] = parsed[i]
            /\ parsed[i] = "JSONDecodeError" =>
                 /\ outputs[i] = "NoFile"
                 /\ (mode = "batch" /\ summaryWrites >= 1) =>
                        \E k \in EntriesOf(summary, i) : summary[k].status = "error"

(***************************************************************************)
(* C6: fence stripping.                                                    *)
(***************************************************************************)
\* the tokens strictly between the first and the last newline of t
LinesBetween(t) ==
    LET nl == {i \in 1..Len(t) : t[i] = "N"}
    IN  IF Cardinality(nl) < 2 THEN <<>>
        ELSE SubSeq(t, Min(nl) + 1, Max(nl) - 1)

\* the content between the fences of a text that starts with the marker:
\* what follows the opening marker, its language tag and its line end, up
\* to the closing marker (the last marker of the text) and its line start;
\* up to the end of the text when no closing marker follows
RECURSIVE DropTag(_)
DropTag(t) == IF t # <<>> /\ Head(t) = "T" THEN DropTag(Tail(t)) ELSE t

ContentBetweenFences(t) ==
    LET afterTag == DropTag(Tail(t))
        body == IF afterTag # <<>> /\ Head(afterTag) = "N" THEN Tail(afterTag) ELSE afterTag
        marks == {i \in 1..Len(body) : body[i] = "F"}
        upTo == IF marks = {} THEN body ELSE SubSeq(body, 1, Max(marks) - 1)
    IN  IF marks # {} /\ upTo # <<>> /\ upTo[Len(upTo)] = "N"
        THEN SubSeq(upTo, 1, Len(upTo) - 1)
        ELSE upTo

\* the opening fence (marker and language tag) is alone on the first line
\* and the closing marker is alone on the last line
FenceOnOwnLines(t) ==
    LET nl == {i \in 1..Len(t) : t[i] = "N"}
    IN  /\ nl # {}
        /\ \A i \in 2..(Min(nl) - 1) : t[i] = "T"
        /\ Max(nl) = Len(t) - 1
        /\ t[Len(t)] = "F"

\* C6 as stated: for every text that starts with the marker the parser is
\* handed the content between the fences; any other text is handed over
\* trimmed but otherwise unchanged.
C6_ParserGetsContentBetweenFences ==
    (mode = "fence" /\ pc = "parsed") =>
        IF StartsWithFence(Strip(full_response))
        THEN parserIn = ContentBetweenFences(Strip(full_response))
        ELSE parserIn = Strip(full_response)

\* C6 as amended: for every text that starts with the marker the parser is
\* handed the lines strictly between the first and the last line, which is
\* the content between the fences when each fence is on a line of its own;
\* any other text is handed over trimmed but otherwise unchanged.
C6_ParserGetsInnerLines ==
    (mode = "fence" /\ pc = "parsed") =>
        LET t == Strip(full_response)
        IN  IF StartsWithFence(t)
            THEN /\ parserIn = LinesBetween(t)
                 /\ FenceOnOwnLines(t) => parserIn = ContentBetweenFences(t)
            ELSE parserIn = t

\* a fence with a language tag around an object
C6_Witness ==
    /\ mode = "fence"
    /\ pc = "parsed"
    /\ full_response = <<"F", "T", "N", "O", "N", "F">>
    /\ parserIn = <<"O">>

(***************************************************************************)
(* C7: no upload and no ask request is sent unless login returned 200;     *)
(* after a failed login the run has ended with nothing uploaded, no output *)
(* file and no batch_summary.json.                                         *)
(***************************************************************************)
C7_NothingWithoutLogin ==
    /\ (uploads # <<>> \/ asks # <<>>) => loginStatus = "ok"
    /\ loginStatus = "failed" =>
         /\ pc = "done"
         /\ uploads = <<>>
         /\ asks = <<>>
         /\ \A i \in Files : outputs[i] = "NoFile"
         /\ summaryWrites = 0

C7_Witness ==
    /\ mode = "batch"
    /\ loginStatus = "failed"
    /\ pc = "done"

(***************************************************************************)
(* C8: in the batch driver each PDF moves only forward through pending,    *)
(* uploading, extracting, parsing and persisted or failed: at most one     *)
(* upload and one ask request per PDF, the ask only after the PDF's upload *)
(* returned 200, the output file only after parsing succeeded, nothing     *)
(* more for a PDF that is persisted or failed, and the next PDF only after *)
(* the current one is persisted or failed.                                 *)
(***************************************************************************)
C8_StateInv ==
    mode = "batch" =>
        /\ \A i \in Files :
            /\ Cardinality(UploadsOf(uploads, i)) <= 1
            /\ Cardinality(AsksOf(asks, i)) <= 1
            /\ AsksOf(asks, i) # {} => UploadOk(i)
            /\ outputs[i] # "NoFile" =>
                 (parsed[i] \in ValueTokens /\ outputs[i] = parsed[i]
                    /\ phase[i] = "persisted")
            /\ i < cur => Terminal(phase[i])
            /\ i > cur => (phase[i] = "pending" /\ UploadsOf(uploads, i) = {}
                             /\ AsksOf(asks, i) = {})
        /\ Cardinality({i \in Files : phase[i] \notin {"pending", "persisted", "failed"}}) <= 1

C8_Step ==
    mode = "batch" =>
        \A i \in Files :
            /\ Rank(phase'[i]) >= Rank(phase[i])
            /\ Terminal(phase[i]) =>
                 /\ phase'[i] = phase[i]
                 /\ outputs'[i] = outputs[i]
                 /\ UploadsOf(uploads', i) = UploadsOf(uploads, i)
                 /\ AsksOf(asks', i) = AsksOf(asks, i)
            /\ (phase[i] = "pending" /\ phase'[i] # "pending") =>
                 /\ phase'[i] = "uploading"
                 /\ \A j \in Files : j # i => (phase[j] = "pending" \/ Terminal(phase[j]))

C8_ForwardOnly == [](C8_StateInv) /\ [][C8_Step]_vars

\* two PDFs are through: one persisted, one failed while parsing
C8_Witness ==
    /\ mode = "batch"
    /\ pc = "done"
    /\ pdfs = 2
    /\ phase[1] = "persisted"
    /\ phase[2] = "failed" /\ parsed[2] = "JSONDecodeError"

(***************************************************************************)
(* C9: batch_summary.json                                                  *)
(***************************************************************************)
InProcessingOrder(list) ==
    \A k \in 1..Len(list), l \in 1..Len(list) : k < l => list[k].file < list[l].file

C10_FreshConversationPerFile ==
    mode = "batch" =>
        \A k \in 1..Len(asks) :
            /\ asks[k].conversationId = "new"
            /\ asks[k].parentMessageId = NilUuid

=============================================================================
